---- MODULE Spec2Model ----
(***************************************************************************)
(* zero-id: time-sortable base62 identifiers (src/src/index.ts).           *)
(*                                                                         *)
(* Representation.                                                         *)
(*   - A string is a sequence of character codes (ASCII / UTF-16 units),   *)
(*     so that indexOf, slice, startsWith, the regular expression and the  *)
(*     string comparison of the source are computed on the characters.     *)
(*   - A BigInt (and a millisecond Number, which exceeds 32 bits) is a     *)
(*     sequence of base-1000 limbs, most significant first, without        *)
(*     leading zero limbs; 0 is << >>.  The sentinel -1n is MinusOne.      *)
(*   - A JSON value is one of the names of JsonTable; its JSON text is the *)
(*     text JSON.stringify produces for it.                                *)
(***************************************************************************)
EXTENDS Integers, Sequences, FiniteSets, TLC

VARIABLES clock, lastTimestamp, counter, prev, cur, probe

vars == <<clock, lastTimestamp, counter, prev, cur, probe>>

None == [kind |-> "none"]

(***************************************************************************)
(* Arithmetic on limb sequences (the BigInt operations of the source).     *)
(***************************************************************************)
SeqModulus == 1000

MinusOne == <<-1>>

RECURSIVE BigNorm(_)
BigNorm(a) ==
  IF Len(a) > 0 /\ a[1] = 0 THEN BigNorm(Tail(a)) ELSE a

BigFromInt(n) ==
  BigNorm(<<n \div (SeqModulus * SeqModulus), (n \div SeqModulus) % SeqModulus,
            n % SeqModulus>>)

RECURSIVE BigToIntFrom(_, _)
BigToIntFrom(a, acc) ==
  IF a = << >> THEN acc ELSE BigToIntFrom(Tail(a), acc * SeqModulus + a[1])

BigToInt(a) == IF a = MinusOne THEN -1 ELSE BigToIntFrom(a, 0)

RECURSIVE LexCmp(_, _)
LexCmp(a, b) ==
  IF a = << >> /\ b = << >> THEN 0
  ELSE IF a = << >> THEN -1
  ELSE IF b = << >> THEN 1
  ELSE IF a[1] < b[1] THEN -1
  ELSE IF a[1] > b[1] THEN 1
  ELSE LexCmp(Tail(a), Tail(b))

BigCmp(a, b) ==
  IF Len(a) < Len(b) THEN -1
  ELSE IF Len(a) > Len(b) THEN 1
  ELSE LexCmp(a, b)

BigLt(a, b) == BigCmp(a, b) = -1

BigLe(a, b) == BigCmp(a, b) # 1

\* n / 62n and n % 62n by long division over the limbs
RECURSIVE BigDivMod62From(_, _, _)
BigDivMod62From(a, q, r) ==
  IF a = << >> THEN [q |-> BigNorm(q), r |-> r]
  ELSE BigDivMod62From(Tail(a), Append(q, (r * SeqModulus + a[1]) \div 62),
                       (r * SeqModulus + a[1]) % 62)

BigDivMod62(a) == BigDivMod62From(a, << >>, 0)

\* num * 62n + BigInt(value), from the least significant limb upwards
RECURSIVE BigMul62AddFrom(_, _, _)
BigMul62AddFrom(a, carry, out) ==
  IF a = << >> THEN
    (IF carry = 0 THEN out ELSE BigMul62AddFrom(<< >>, carry \div SeqModulus,
                                                <<carry % SeqModulus>> \o out))
  ELSE BigMul62AddFrom(SubSeq(a, 1, Len(a) - 1),
                       (a[Len(a)] * 62 + carry) \div SeqModulus,
                       <<(a[Len(a)] * 62 + carry) % SeqModulus>> \o out)

BigMul62Add(a, value) == BigNorm(BigMul62AddFrom(a, value, << >>))

\* BigInt(now) * 1000n + BigInt(c), for 0 <= c < 1000
BigMul1000Add(t, c) == BigNorm(Append(t, c))

\* decoded / 1000n (BigInt division truncates)
BigDiv1000(a) == IF a = << >> THEN << >> ELSE SubSeq(a, 1, Len(a) - 1)

\* a + d for a small non-negative d
RECURSIVE BigAddFrom(_, _, _)
BigAddFrom(a, carry, out) ==
  IF a = << >> THEN
    (IF carry = 0 THEN out ELSE BigAddFrom(<< >>, carry \div SeqModulus,
                                           <<carry % SeqModulus>> \o out))
  ELSE BigAddFrom(SubSeq(a, 1, Len(a) - 1),
                  (a[Len(a)] + carry) \div SeqModulus,
                  <<(a[Len(a)] + carry) % SeqModulus>> \o out)

BigAdd(a, d) == BigNorm(BigAddFrom(a, d, << >>))

(***************************************************************************)
(* Strings and the base62 alphabet.                                        *)
(***************************************************************************)
BASE62_CHARS ==
  [i \in 1..62 |-> IF i <= 10 THEN 47 + i ELSE IF i <= 36 THEN 54 + i ELSE 60 + i]

TIMESTAMP_LENGTH == 9

DEFAULT_RANDOM_LENGTH == 7

MIN_TIMESTAMP == <<946, 684, 800, 0>>

MAX_TIMESTAMP == <<32, 503, 680, 0, 0>>

\* BASE62_CHARS.indexOf(char), tabulated for the codes below 128 (every
\* character of the alphabet is one of them)
IndexTable ==
  [c \in 0..127 |->
     IF \E i \in 1..62 : BASE62_CHARS[i] = c
     THEN (CHOOSE i \in 1..62 : BASE62_CHARS[i] = c) - 1
     ELSE -1]

IndexOf(c) == IF c \in 0..127 THEN IndexTable[c] ELSE -1

\* s.slice(from) and s.slice(from, to) with 0-based non-negative arguments
Slice(s, from, to) ==
  SubSeq(s, (IF from > Len(s) THEN Len(s) ELSE from) + 1,
            IF to > Len(s) THEN Len(s) ELSE to)

SliceFrom(s, from) == Slice(s, from, Len(s))

\* s.slice(0, -2) and s.slice(-2)
DropLast2(s) == SubSeq(s, 1, Len(s) - 2)

Last2(s) == IF Len(s) < 2 THEN s ELSE SubSeq(s, Len(s) - 1, Len(s))

StartsWith(s, p) == Len(p) <= Len(s) /\ SubSeq(s, 1, Len(p)) = p

\* the pattern without its end anchor, /^[0-9A-Za-z]+/.test(s)
MutIsBase62StrUnanchored(s) ==
  /\ Len(s) > 0
  /\ \/ s[1] \in 48..57
     \/ s[1] \in 65..90
     \/ s[1] \in 97..122

\* /^[0-9A-Za-z]+$/.test(s)
IsBase62Str(s) ==
  /\ Len(s) > 0
  /\ \A i \in 1..Len(s) :
       \/ s[i] \in 48..57
       \/ s[i] \in 65..90
       \/ s[i] \in 97..122

\* a comparison that looks at the first code unit only
MutStrCmpFirstUnit(a, b) ==
  IF a = << >> \/ b = << >> THEN LexCmp(a, b)
  ELSE LexCmp(<<a[1]>>, <<b[1]>>)

\* the relational comparison of two strings by code units: -1, 0 or 1
StrCmp(a, b) == LexCmp(a, b)

RECURSIVE encodeBase62Loop(_, _, _)
encodeBase62Loop(n, i, result) ==
  IF i = 0 THEN result
  ELSE LET qr == BigDivMod62(n)
       IN  encodeBase62Loop(qr.q, i - 1, <<BASE62_CHARS[qr.r + 1]>> \o result)

encodeBase62(num, length) == encodeBase62Loop(num, length, << >>)

\* the loop of decodeBase62 stepping over a character it does not know
RECURSIVE MutDecodeBase62LoopSkips(_, _)
MutDecodeBase62LoopSkips(str, num) ==
  IF str = << >> THEN num
  ELSE IF IndexOf(str[1]) = -1 THEN MutDecodeBase62LoopSkips(Tail(str), num)
  ELSE MutDecodeBase62LoopSkips(Tail(str), BigMul62Add(num, IndexOf(str[1])))

RECURSIVE decodeBase62Loop(_, _)
decodeBase62Loop(str, num) ==
  IF str = << >> THEN num
  ELSE IF IndexOf(str[1]) = -1 THEN MinusOne
  ELSE decodeBase62Loop(Tail(str), BigMul62Add(num, IndexOf(str[1])))

decodeBase62(str) == decodeBase62Loop(str, << >>)

\* a % m and the quotient of a / m on JavaScript integers (both truncate
\* towards zero; the remainder takes the sign of a)
JsRem(a, m) == IF a >= 0 THEN a % m ELSE -((-a) % m)

JsQuot(a, m) == IF a >= 0 THEN a \div m ELSE -((-a) \div m)

\* the text "undefined", which string concatenation yields for an
\* out-of-range index of BASE62_CHARS
UndefinedText == <<117, 110, 100, 101, 102, 105, 110, 101, 100>>

\* encodeBase62 applied to a Number that fits 32 bits (a checksum, a length)
RECURSIVE encodeBase62NumLoop(_, _, _)
encodeBase62NumLoop(n, i, result) ==
  IF i = 0 THEN result
  ELSE encodeBase62NumLoop(JsQuot(n, 62), i - 1,
         (IF JsRem(n, 62) >= 0 THEN <<BASE62_CHARS[JsRem(n, 62) + 1]>>
          ELSE UndefinedText) \o result)

encodeBase62Num(num, length) == encodeBase62NumLoop(num, length, << >>)

(***************************************************************************)
(* The random source.  crypto.getRandomValues fills each requested array   *)
(* with the next bytes of a byte stream; randomBase62 asks for needed + 4  *)
(* bytes at a time and keeps the bytes below 248 until it has `length`     *)
(* characters.  The streams of the model hold enough bytes for every       *)
(* length used; a stream that runs out ends the loop.                      *)
(***************************************************************************)
\* the body of the for loop taking every byte
MutRandomBase62ByteNoReject(byte, result) ==
  Append(result, BASE62_CHARS[(byte % 62) + 1])

\* the body of the for loop: a byte below 248 gives a character
randomBase62Byte(byte, result) ==
  IF byte < 248 THEN Append(result, BASE62_CHARS[(byte % 62) + 1])
  ELSE result

\* the for loop over one array of random bytes
RECURSIVE randomBase62Batch(_, _, _)
randomBase62Batch(bytes, length, result) ==
  IF bytes = << >> \/ Len(result) >= length THEN result
  ELSE randomBase62Batch(Tail(bytes), length, randomBase62Byte(bytes[1], result))

\* the while loop: one array of needed + 4 bytes per round
RECURSIVE randomBase62Loop(_, _, _)
randomBase62Loop(stream, length, result) ==
  IF Len(result) >= length \/ stream = << >> THEN result
  ELSE LET needed == length - Len(result)
       IN  randomBase62Loop(SliceFrom(stream, needed + 4), length,
             randomBase62Batch(Slice(stream, 0, needed + 4), length, result))

randomBase62(length, stream) == randomBase62Loop(stream, length, << >>)

(***************************************************************************)
(* JSON values.  JsonTable lists the values of the model with the text     *)
(* JSON.stringify gives and whether the value is truthy:                   *)
\*   null         null
\*   false        false
\*   zero         0
\*   emptyString  ""
\*   true         true
\*   emptyObject  {}
\*   emptyArray   []
\*   objA1        {"a":1}
\*   nested       {"n":{"d":[true,null]},"s":"x"}
(* JSON.parse is the inverse lookup; every other text met in the model is  *)
(* not JSON and raises SyntaxError.                                        *)
(***************************************************************************)
Undefined == "undefined"

SyntaxError == "SyntaxError"

JsonTable == <<
    [value |-> "null", text |-> <<110, 117, 108, 108>>, truthy |-> FALSE],
    [value |-> "false", text |-> <<102, 97, 108, 115, 101>>, truthy |-> FALSE],
    [value |-> "zero", text |-> <<48>>, truthy |-> FALSE],
    [value |-> "emptyString", text |-> <<34, 34>>, truthy |-> FALSE],
    [value |-> "true", text |-> <<116, 114, 117, 101>>, truthy |-> TRUE],
    [value |-> "emptyObject", text |-> <<123, 125>>, truthy |-> TRUE],
    [value |-> "emptyArray", text |-> <<91, 93>>, truthy |-> TRUE],
    [value |-> "objA1", text |-> <<123, 34, 97, 34, 58, 49, 125>>, truthy |-> TRUE],
    [value |-> "nested", text |-> <<123, 34, 110, 34, 58, 123, 34, 100, 34, 58, 91, 116, 114, 117, 101, 44, 110, 117, 108, 108, 93, 125, 44, 34, 115, 34, 58, 34, 120, 34, 125>>, truthy |-> TRUE]
  >>

JsonValues == {JsonTable[i].value : i \in 1..Len(JsonTable)}

JsonEntry(v) == JsonTable[CHOOSE i \in 1..Len(JsonTable) : JsonTable[i].value = v]

JSONstringify(v) == JsonEntry(v).text

Truthy(v) == v # Undefined /\ JsonEntry(v).truthy

JSONparse(text) ==
  IF \E i \in 1..Len(JsonTable) : JsonTable[i].text = text
  THEN JsonTable[CHOOSE i \in 1..Len(JsonTable) : JsonTable[i].text = text].value
  ELSE SyntaxError

\* new TextEncoder().encode(json), for the ASCII texts of JsonTable
TextEncode(json) == json

\* new TextDecoder().decode(new Uint8Array(bytes)): each number is stored
\* modulo 256; a byte above 127 that is not part of a well-formed sequence
\* decodes to U+FFFD
TextDecode(bytes) ==
  [i \in 1..Len(bytes) |-> IF bytes[i] % 256 < 128 THEN bytes[i] % 256 ELSE 65533]

RECURSIVE encodeMetadataLoop(_, _)
encodeMetadataLoop(bytes, result) ==
  IF bytes = << >> THEN result
  ELSE encodeMetadataLoop(Tail(bytes),
         result \o <<BASE62_CHARS[(bytes[1] \div 62) + 1],
                     BASE62_CHARS[(bytes[1] % 62) + 1]>>)

encodeMetadata(metadata) ==
  LET result == encodeMetadataLoop(TextEncode(JSONstringify(metadata)), << >>)
  IN  encodeBase62Num(Len(result), 3) \o result

Null == [kind |-> "null"]

\* the byte loop of decodeMetadata: the bytes, or BadPair (no byte is
\* negative) at a character outside the alphabet, where the code returns
\* null
BadPair == <<-1>>

RECURSIVE decodeMetadataLoop(_, _)
decodeMetadataLoop(part, bytes) ==
  IF part = << >> THEN bytes
  ELSE IF IndexOf(part[1]) = -1 \/ IndexOf(part[2]) = -1 THEN BadPair
  ELSE decodeMetadataLoop(Tail(Tail(part)),
                          Append(bytes, IndexOf(part[1]) * 62 + IndexOf(part[2])))

\* decodeMetadata without the test of the declared length against the
\* characters that are left
MutDecodeMetadataNoLengthTest(encoded) ==
  IF Len(encoded) < 3 THEN Null
  ELSE
    LET metadataLength == BigToInt(decodeBase62(Slice(encoded, 0, 3)))
    IN  IF metadataLength < 0 THEN Null
        ELSE
          LET metadataPart == Slice(encoded, 3, 3 + metadataLength)
          IN  IF Len(metadataPart) % 2 # 0 THEN Null
              ELSE
                LET bytes == decodeMetadataLoop(metadataPart, << >>)
                IN  IF bytes = BadPair THEN Null
                    ELSE IF JSONparse(TextDecode(bytes)) = SyntaxError THEN Null
                    ELSE [kind |-> "metadata",
                          metadata |-> JSONparse(TextDecode(bytes)),
                          length |-> 3 + metadataLength]

decodeMetadata(encoded) ==
  IF Len(encoded) < 3 THEN Null
  ELSE
    LET metadataLength == BigToInt(decodeBase62(Slice(encoded, 0, 3)))
    IN  IF metadataLength < 0 \/ Len(encoded) < 3 + metadataLength THEN Null
        ELSE
          LET metadataPart == Slice(encoded, 3, 3 + metadataLength)
          IN  IF Len(metadataPart) % 2 # 0 THEN Null
              ELSE
                LET bytes == decodeMetadataLoop(metadataPart, << >>)
                IN  IF bytes = BadPair THEN Null
                    ELSE IF JSONparse(TextDecode(bytes)) = SyntaxError THEN Null
                    ELSE [kind |-> "metadata",
                          metadata |-> JSONparse(TextDecode(bytes)),
                          length |-> 3 + metadataLength]

(***************************************************************************)
(* Checksum.                                                               *)
(***************************************************************************)
ChecksumModulus == 3844

\* sum = (sum + index * (i + 1)) % 3844; the remainder of a negative sum
\* (a character outside the alphabet has index -1) is negative

\* the checksum loop weighting position i by i instead of i + 1
RECURSIVE MutChecksumLoopWeightI(_, _, _)
MutChecksumLoopWeightI(data, i, sum) ==
  IF i >= Len(data) THEN sum
  ELSE LET next == sum + IndexOf(data[i + 1]) * i
       IN  IF next >= 0
           THEN MutChecksumLoopWeightI(data, i + 1, next % ChecksumModulus)
           ELSE MutChecksumLoopWeightI(data, i + 1, -((-next) % ChecksumModulus))

RECURSIVE calculateChecksumLoop(_, _, _)
calculateChecksumLoop(data, i, sum) ==
  IF i >= Len(data) THEN sum
  ELSE LET next == sum + IndexOf(data[i + 1]) * (i + 1)
       IN  IF next >= 0
           THEN calculateChecksumLoop(data, i + 1, next % ChecksumModulus)
           ELSE calculateChecksumLoop(data, i + 1, -((-next) % ChecksumModulus))

calculateChecksum(data) == encodeBase62Num(calculateChecksumLoop(data, 0, 0), 2)

verifyChecksum(id) ==
  IF Len(id) < 2 THEN FALSE
  ELSE calculateChecksum(DropLast2(id)) = Last2(id)

(***************************************************************************)
(* Assembling and decoding identifiers.                                    *)
(***************************************************************************)
\* the part of zeroId / zeroIdAt after the timestamp is fixed: options is
\* [prefix, randomLength, metadata, checksum], bytes the random byte stream
Assemble(timestampWithCounter, options, bytes) ==
  LET timestampPart == encodeBase62(timestampWithCounter, TIMESTAMP_LENGTH)
      metadataPart == IF Truthy(options.metadata)
                      THEN encodeMetadata(options.metadata) ELSE << >>
      randomPart == randomBase62(options.randomLength, bytes)
      core == timestampPart \o metadataPart \o randomPart
      checksumPart == IF options.checksum THEN calculateChecksum(core) ELSE << >>
  IN  options.prefix \o core \o checksumPart

\* zeroIdAt embedding the sequence of the module state
MutZeroIdAtEmbedsCounter(ts, options, bytes) ==
  Assemble(BigMul1000Add(ts, counter % SeqModulus), options, bytes)

zeroIdAt(ts, options, bytes) == Assemble(BigMul1000Add(ts, 0), options, bytes)

\* decodeZeroId with the length test taken one too far
MutDecodeBody(unprefixed) ==
  IF Len(unprefixed) <= 10 \/ ~IsBase62Str(unprefixed) THEN Null
  ELSE [kind |-> "record", timestamp |-> BigDiv1000(decodeBase62(Slice(unprefixed, 0, 9))),
        metadata |-> Undefined]

\* decodeZeroId after the checksum step, on the body that is left
decodeBody(unprefixed) ==
  IF Len(unprefixed) < 10 \/ ~IsBase62Str(unprefixed) THEN Null
  ELSE
    LET decoded == decodeBase62(Slice(unprefixed, 0, 9))
    IN  IF decoded = MinusOne THEN Null
        ELSE
          LET timestamp == BigDiv1000(decoded)
          IN  IF BigLt(timestamp, MIN_TIMESTAMP) \/ BigLt(MAX_TIMESTAMP, timestamp)
              THEN Null
              ELSE
                LET metadataResult == decodeMetadata(SliceFrom(unprefixed, 9))
                IN  [kind |-> "record",
                     timestamp |-> timestamp,
                     metadata |-> IF metadataResult = Null THEN Undefined
                                  ELSE metadataResult.metadata]

\* decodeZeroId without the startsWith test
MutDecodeNoPrefixTest(id, prefix, checksum) ==
  LET unprefixed == SliceFrom(id, Len(prefix))
  IN  IF checksum
      THEN (IF ~verifyChecksum(unprefixed) THEN Null
            ELSE decodeBody(DropLast2(unprefixed)))
      ELSE decodeBody(unprefixed)

decodeZeroId(id, prefix, checksum) ==
  IF prefix # << >> /\ ~StartsWith(id, prefix) THEN Null
  ELSE
    LET unprefixed == SliceFrom(id, Len(prefix))
    IN  IF checksum
        THEN (IF ~verifyChecksum(unprefixed) THEN Null
              ELSE decodeBody(DropLast2(unprefixed)))
        ELSE decodeBody(unprefixed)

isValidZeroId(id, prefix, checksum) == decodeZeroId(id, prefix, checksum) # Null

FormatError == [kind |-> "throw", message |-> "Invalid zeroId format"]

\* compareZeroIds with the length test on the first argument only
MutCompareTestsOnlyA(a, b, prefix) ==
  LET unprefixedA == IF prefix # << >> THEN SliceFrom(a, Len(prefix)) ELSE a
      unprefixedB == IF prefix # << >> THEN SliceFrom(b, Len(prefix)) ELSE b
  IN  IF Len(unprefixedA) < 9 THEN FormatError
      ELSE [kind |-> "value",
            value |-> StrCmp(Slice(unprefixedA, 0, 9), Slice(unprefixedB, 0, 9))]

compareZeroIds(a, b, prefix) ==
  LET unprefixedA == IF prefix # << >> THEN SliceFrom(a, Len(prefix)) ELSE a
      unprefixedB == IF prefix # << >> THEN SliceFrom(b, Len(prefix)) ELSE b
  IN  IF Len(unprefixedA) < 9 \/ Len(unprefixedB) < 9 THEN FormatError
      ELSE [kind |-> "value",
            value |-> StrCmp(Slice(unprefixedA, 0, 9), Slice(unprefixedB, 0, 9))]


(***************************************************************************)
(* Bounds and input sets.                                                  *)
(***************************************************************************)
\* zeroId calls within one millisecond (one past the 1000-wide sequence)
MaxCounter == 1000

\* the wall clock of the clock-sequence specification moves within
\* BaseClock .. BaseClock + MaxClockOffset
MaxClockOffset == 1

\* 1700000000000, the timestamp of the tests (2023-11-14)
BaseClock == <<1, 700, 0, 0, 0>>

ClockVals == {BigAdd(BaseClock, d) : d \in 0..MaxClockOffset}

\* 13537086546262: the last millisecond t with t*1000 + 999 < 62^9
LastExactMillis == <<13, 537, 86, 546, 262>>

\* timestamps of the range [MIN_TIMESTAMP, MAX_TIMESTAMP] the code accepts:
\* both ends, a present-day value, and the values around 62^9 / 1000
ValidMillis ==
  {MIN_TIMESTAMP, BaseClock, LastExactMillis, BigAdd(LastExactMillis, 1),
   BigAdd(LastExactMillis, 2), MAX_TIMESTAMP}

\* t * 1000 + 999 < 62^9 and MIN_TIMESTAMP <= t
InFieldRange(t) == BigLe(MIN_TIMESTAMP, t) /\ BigLe(t, LastExactMillis)

NoPrefix == << >>

\* "u_", "o_", "u_A", "A", "7"
PrefixU == <<117, 95>>

PrefixO == <<111, 95>>

PrefixUA == <<117, 95, 65>>

PrefixA == <<65>>

Prefix7 == <<55>>

\* byte streams of the random source: plain bytes (random field "5HTfry3"),
\* bytes with rejected values (>= 248) and values above 61 ("89z9z00"), and
\* the stream whose first seven bytes give the random field "0041z21"
ByteStreams ==
  { <<5, 17, 29, 41, 53, 60, 3, 11, 23, 35, 47, 59>>,
    <<250, 70, 255, 133, 247, 248, 9, 61, 62, 124, 200, 15, 33>>,
    <<0, 0, 4, 1, 61, 2, 1, 8, 8, 249, 100, 30>> }

OptionRecord(prefix, randomLength, metadata, checksum) ==
  [prefix |-> prefix, randomLength |-> randomLength,
   metadata |-> metadata, checksum |-> checksum]

DefaultOptions == OptionRecord(NoPrefix, DEFAULT_RANDOM_LENGTH, Undefined, FALSE)

\* the options of the clock-sequence specification
SeqOptions == {DefaultOptions, OptionRecord(PrefixU, 1, Undefined, TRUE)}

\* the random bytes of the clock-sequence specification
SeqBytes == {<<5, 17, 29, 41, 53, 60, 3, 11, 23, 35, 47, 59>>}

\* the options of the generation specifications
GenOptions ==
  {OptionRecord(p, n, m, c) :
     p \in {NoPrefix, PrefixU}, n \in {1, DEFAULT_RANDOM_LENGTH},
     m \in JsonValues \cup {Undefined}, c \in BOOLEAN}

(***************************************************************************)
(* State: the wall clock, the module variables lastTimestamp and counter,  *)
(* the last two zeroId calls since the last reset (cur, prev) and the last *)
(* other operation with its result (probe).                                *)
(***************************************************************************)
Init ==
  /\ clock \in ClockVals
  /\ lastTimestamp = << >>
  /\ counter = 0
  /\ prev = None
  /\ cur = None
  /\ probe = None

\* the wall clock changes (forwards or backwards) between two operations
TickIn(clocks) ==
  /\ clock' \in clocks \ {clock}
  /\ UNCHANGED <<lastTimestamp, counter, prev, cur, probe>>

Tick == TickIn(ClockVals)

\* zeroId keeping lastTimestamp and counting on when the clock went back
MutZeroIdCountsOnBackwards(options, bytes) ==
  LET now == clock
      same == BigLe(now, lastTimestamp)
      newCounter == IF same THEN counter + 1 ELSE 0
      timestampWithCounter == BigMul1000Add(now, newCounter % SeqModulus)
  IN  /\ newCounter <= MaxCounter
      /\ IF same
         THEN counter' = counter + 1 /\ UNCHANGED lastTimestamp
         ELSE lastTimestamp' = now /\ counter' = 0
      /\ prev' = cur
      /\ cur' = [kind |-> "zeroId", now |-> now,
                 sequence |-> newCounter % SeqModulus, options |-> options,
                 id |-> Assemble(timestampWithCounter, options, bytes)]
      /\ UNCHANGED <<clock, probe>>

zeroId(options, bytes) ==
  LET now == clock
      newCounter == IF now = lastTimestamp THEN counter + 1 ELSE 0
      timestampWithCounter == BigMul1000Add(now, newCounter % SeqModulus)
  IN  /\ newCounter <= MaxCounter
      /\ IF now = lastTimestamp
         THEN counter' = counter + 1 /\ UNCHANGED lastTimestamp
         ELSE lastTimestamp' = now /\ counter' = 0
      /\ prev' = cur
      /\ cur' = [kind |-> "zeroId", now |-> now,
                 sequence |-> newCounter % SeqModulus, options |-> options,
                 id |-> Assemble(timestampWithCounter, options, bytes)]
      /\ UNCHANGED <<clock, probe>>

ZeroIdSeq == \E options \in SeqOptions, bytes \in SeqBytes : zeroId(options, bytes)

\* resetCounter without the assignment to lastTimestamp
MutResetCounterOnly ==
  /\ counter' = 0
  /\ prev' = None
  /\ cur' = None
  /\ UNCHANGED <<clock, lastTimestamp, probe>>

resetCounter ==
  /\ lastTimestamp' = << >>
  /\ counter' = 0
  /\ prev' = None
  /\ cur' = None
  /\ UNCHANGED <<clock, probe>>

Next == Tick \/ ZeroIdSeq \/ resetCounter

Spec == Init /\ [][Next]_vars

\* the 9-character timestamp field of a generated identifier, decoded
EmbeddedTimestamp(call) ==
  decodeBase62(Slice(SliceFrom(call.id, Len(call.options.prefix)), 0, 9))

ConsecutiveCalls ==
  /\ prev # None
  /\ cur # None
  /\ BigLe(prev.now, cur.now)

\* C1 (as claimed): of two consecutive zeroId calls with a non-decreasing
\* clock and no reset in between, made with the same prefix, the earlier
\* identifier compares strictly before the later one.
C1_MonotonicOrdering ==
  (ConsecutiveCalls /\ prev.options.prefix = cur.options.prefix) =>
    compareZeroIds(prev.id, cur.id, cur.options.prefix)
      = [kind |-> "value", value |-> -1]

\* C2 (as claimed): with a non-decreasing clock and no reset, the encoded
\* timestamp timestampMillis * 1000 + sequence embedded by a zeroId call is
\* strictly greater than the one embedded by the call before it.
C2_StrictlyIncreasing ==
  ConsecutiveCalls => BigLt(EmbeddedTimestamp(prev), EmbeddedTimestamp(cur))

(***************************************************************************)
(* Generation from every clock-sequence state: the initial state is any    *)
(* state a run of zeroId calls leaves behind, and one zeroId call is made  *)
(* from it with any options.                                               *)
(***************************************************************************)
\* values of counter after 1, 551, 552, 553, 999 and 1000 calls in one
\* millisecond
GenCounters == {0, 550, 551, 552, 998, 999}

InitGen ==
  /\ clock \in ValidMillis
  /\ \/ lastTimestamp = << >> /\ counter = 0
     \/ lastTimestamp \in ValidMillis /\ counter \in GenCounters
  /\ prev = None
  /\ cur = None
  /\ probe = None

ZeroIdOnce ==
  /\ cur = None
  /\ \E options \in GenOptions, bytes \in ByteStreams : zeroId(options, bytes)

NextGen == ZeroIdOnce

SpecGen == InitGen /\ [][NextGen]_vars

DecodedCur == decodeZeroId(cur.id, cur.options.prefix, cur.options.checksum)

\* C3: an identifier generated by zeroId at a wall-clock reading t with
\* MIN_TIMESTAMP <= t and t*1000 + 999 < 62^9 validates, and decodes to a
\* record, under the prefix and checksum option it was generated with.
C3_GeneratedValidates ==
  (cur # None /\ InFieldRange(cur.now)) =>
    /\ isValidZeroId(cur.id, cur.options.prefix, cur.options.checksum)
    /\ DecodedCur.kind = "record"

C3_Witness ==
  /\ cur # None
  /\ cur.now = LastExactMillis
  /\ cur.sequence = 999
  /\ cur.options = OptionRecord(PrefixU, 1, "nested", TRUE)
  /\ DecodedCur.kind = "record"

\* C4 (as claimed): decoding a generated identifier gives a record whose
\* timestamp is the wall-clock millisecond the zeroId call read, whatever
\* sequence the call embedded.
C4_TimestampRecovered ==
  cur # None => (DecodedCur.kind = "record" /\ DecodedCur.timestamp = cur.now)

\* C6 (as claimed): a zeroId call given metadata v (any JSON value) yields
\* an identifier whose decoded metadata is v.
C6_MetadataRoundTrip ==
  (cur # None /\ cur.options.metadata # Undefined /\ InFieldRange(cur.now)) =>
    (DecodedCur.kind = "record" /\ DecodedCur.metadata = cur.options.metadata)

(***************************************************************************)
(* zeroIdAt with any timestamp of the accepted range and any options.      *)
(***************************************************************************)
ZeroIdAt(ts, options, bytes) ==
  /\ probe' = [kind |-> "zeroIdAt", ts |-> ts, options |-> options,
               id |-> zeroIdAt(ts, options, bytes)]
  /\ UNCHANGED <<clock, lastTimestamp, counter, prev, cur>>

ZeroIdAtOnce ==
  /\ probe = None
  /\ \E ts \in ValidMillis, options \in GenOptions, bytes \in ByteStreams :
       ZeroIdAt(ts, options, bytes)

NextAt == ZeroIdAtOnce

SpecAt == Init /\ [][NextAt]_vars

DecodedProbe == decodeZeroId(probe.id, probe.options.prefix, probe.options.checksum)

\* C5 (as claimed): for every timestamp ts of [MIN_TIMESTAMP, MAX_TIMESTAMP]
\* the identifier zeroIdAt(ts, o) decodes to a record with timestamp ts.
C5_GenerateAtRoundTrip ==
  probe.kind = "zeroIdAt" =>
    (DecodedProbe.kind = "record" /\ DecodedProbe.timestamp = probe.ts)

\* C7 (as claimed): an identifier generated without metadata decodes with
\* metadata undefined, whatever the random field holds.
C7_NoMetadataDecodesAbsent ==
  (probe.kind = "zeroIdAt" /\ probe.options.metadata = Undefined
     /\ DecodedProbe.kind = "record") =>
    DecodedProbe.metadata = Undefined

(***************************************************************************)
(* Corruption of a checksummed identifier: one character of the core is    *)
(* replaced by a different character of the alphabet.                      *)
(***************************************************************************)
ChecksumOptions ==
  {OptionRecord(p, DEFAULT_RANDOM_LENGTH, Undefined, TRUE) : p \in {NoPrefix, PrefixU}}

TamperClocks == ClockVals \cup {MIN_TIMESTAMP, LastExactMillis}

InitTamper ==
  /\ clock \in TamperClocks
  /\ lastTimestamp = << >>
  /\ counter = 0
  /\ prev = None
  /\ cur = None
  /\ probe = None

ZeroIdChecksummed ==
  /\ cur = None
  /\ \E options \in ChecksumOptions, bytes \in ByteStreams : zeroId(options, bytes)

Base62Set == {BASE62_CHARS[i] : i \in 1..62}

\* the length of the core of the identifier of a zeroId call
CoreLength(call) ==
  Len(call.id) - Len(call.options.prefix) - (IF call.options.checksum THEN 2 ELSE 0)

Tamper ==
  /\ cur # None
  /\ probe = None
  /\ \E i \in 1..CoreLength(cur), c \in Base62Set :
       /\ c # cur.id[Len(cur.options.prefix) + i]
       /\ probe' = [kind |-> "tamper", position |-> i,
                    id |-> [cur.id EXCEPT ![Len(cur.options.prefix) + i] = c]]
  /\ UNCHANGED <<clock, lastTimestamp, counter, prev, cur>>

NextTamper == ZeroIdChecksummed \/ Tamper

SpecTamper == InitTamper /\ [][NextTamper]_vars

\* C8: for an identifier generated with checksum, without metadata and with
\* the default randomLength (a 16-character core), replacing one character
\* of the core by a different base62 character makes isValidZeroId false
\* and decodeZeroId null under {checksum: true}.
C8_TamperDetected ==
  (/\ probe.kind = "tamper"
   /\ cur.options.checksum
   /\ cur.options.metadata = Undefined
   /\ cur.options.randomLength = DEFAULT_RANDOM_LENGTH) =>
    /\ ~isValidZeroId(probe.id, cur.options.prefix, TRUE)
    /\ decodeZeroId(probe.id, cur.options.prefix, TRUE) = Null

C8_Witness ==
  /\ probe.kind = "tamper"
  /\ probe.position = 16
  /\ CoreLength(cur) = 16
  /\ cur.options.prefix = PrefixU
  /\ isValidZeroId(cur.id, cur.options.prefix, TRUE)
  /\ ~isValidZeroId(probe.id, cur.options.prefix, TRUE)

(***************************************************************************)
(* Decoding a generated identifier under another prefix.                   *)
(***************************************************************************)
PrefixOptions ==
  {OptionRecord(p, n, Undefined, FALSE) :
     p \in {NoPrefix, PrefixU, PrefixUA, PrefixA}, n \in {1, DEFAULT_RANDOM_LENGTH}}

DecodePrefixes == {NoPrefix, PrefixU, PrefixO, PrefixUA, PrefixA, Prefix7}

ZeroIdPrefixed ==
  /\ cur = None
  /\ \E options \in PrefixOptions, bytes \in ByteStreams : zeroId(options, bytes)

Decode(id, prefix, checksum) ==
  /\ probe' = [kind |-> "decode", id |-> id, prefix |-> prefix,
               checksum |-> checksum,
               result |-> decodeZeroId(id, prefix, checksum),
               valid |-> isValidZeroId(id, prefix, checksum)]
  /\ UNCHANGED <<clock, lastTimestamp, counter, prev, cur>>

DecodeGenerated ==
  /\ cur # None
  /\ probe = None
  /\ \E prefix \in DecodePrefixes, checksum \in BOOLEAN :
       Decode(cur.id, prefix, checksum)

NextPrefix == ZeroIdPrefixed \/ DecodeGenerated

SpecPrefix == InitTamper /\ [][NextPrefix]_vars

\* C9 (as claimed): an identifier generated with prefix p is rejected when
\* it is decoded with any different prefix q.
C9_WrongPrefixRejected ==
  (probe.kind = "decode" /\ ~probe.checksum /\ probe.prefix # cur.options.prefix) =>
    (probe.result = Null /\ ~probe.valid)

\* C9 (amended): an identifier generated with prefix p is rejected when it
\* is decoded with a prefix q such that neither of p and q is an initial
\* segment of the other.
C9_UnrelatedPrefixRejected ==
  (/\ probe.kind = "decode"
   /\ ~probe.checksum
   /\ ~StartsWith(cur.options.prefix, probe.prefix)
   /\ ~StartsWith(probe.prefix, cur.options.prefix)) =>
    (probe.result = Null /\ ~probe.valid)

C9_Witness ==
  /\ probe.kind = "decode"
  /\ ~probe.checksum
  /\ cur.options.prefix = PrefixU
  /\ probe.prefix = PrefixO
  /\ probe.result = Null
  /\ decodeZeroId(cur.id, PrefixU, FALSE).kind = "record"

(***************************************************************************)
(* compareZeroIds on arbitrary strings.                                    *)
(***************************************************************************)
\* "", "short", "12345678", "7mjS6b2rg", "!!!!!!!!!", "u_12345678",
\* "u_7mjS6b2rg", a generated identifier, and one behind the prefix "o_"
CompareInputs ==
  { << >>,
    <<115, 104, 111, 114, 116>>,
    <<49, 50, 51, 52, 53, 54, 55, 56>>,
    <<55, 109, 106, 83, 54, 98, 50, 114, 103>>,
    <<33, 33, 33, 33, 33, 33, 33, 33, 33>>,
    PrefixU \o <<49, 50, 51, 52, 53, 54, 55, 56>>,
    PrefixU \o <<55, 109, 106, 83, 54, 98, 50, 114, 103>>,
    zeroIdAt(BigAdd(BaseClock, 1), DefaultOptions, <<5, 17, 29, 41, 53, 60, 3, 11, 23, 35, 47, 59>>),
    PrefixO \o zeroIdAt(MIN_TIMESTAMP, DefaultOptions, <<5, 17, 29, 41, 53, 60, 3, 11, 23, 35, 47, 59>>) }

\* "", "u_" and a prefix longer than some of the inputs
ComparePrefixes == {NoPrefix, PrefixU, <<108, 111, 110, 103, 95, 112, 114, 101, 95>>}

Compare(a, b, prefix) ==
  /\ probe' = [kind |-> "compare", a |-> a, b |-> b, prefix |-> prefix,
               result |-> compareZeroIds(a, b, prefix)]
  /\ UNCHANGED <<clock, lastTimestamp, counter, prev, cur>>

CompareOnce ==
  /\ probe = None
  /\ \E a \in CompareInputs, b \in CompareInputs, prefix \in ComparePrefixes :
       Compare(a, b, prefix)

NextCompare == CompareOnce

SpecCompare == Init /\ [][NextCompare]_vars

\* the number of characters left after removing n leading characters
LengthAfter(s, n) == IF Len(s) > n THEN Len(s) - n ELSE 0

C11_CompareThrowsOnInvalid ==
  (/\ probe.kind = "compare"
   /\ probe.prefix = NoPrefix
   /\ \/ ~isValidZeroId(probe.a, NoPrefix, FALSE)
      \/ ~isValidZeroId(probe.b, NoPrefix, FALSE))
  => probe.result = FormatError

(***************************************************************************)
(* compareZeroIds on identifiers with a base62 timestamp field.            *)
(***************************************************************************)
\* "000000000", "9zzzzzzzz", "A00000000", "Zzzzzzzzz", "a00000000",
\* "zzzzzzzzz": the fields on both sides of the digit / upper case / lower
\* case borders of the alphabet
OrderFields ==
  { <<48, 48, 48, 48, 48, 48, 48, 48, 48>>,
    <<57, 122, 122, 122, 122, 122, 122, 122, 122>>,
    <<65, 48, 48, 48, 48, 48, 48, 48, 48>>,
    <<90, 122, 122, 122, 122, 122, 122, 122, 122>>,
    <<97, 48, 48, 48, 48, 48, 48, 48, 48>>,
    <<122, 122, 122, 122, 122, 122, 122, 122, 122>> }

\* the bare fields, and identifiers of four timestamps generated with the
\* default options and with a one-character random field, metadata and a
\* checksum
OrderBodies ==
  OrderFields \cup
  {zeroIdAt(ts, options, bytes) :
     ts \in {MIN_TIMESTAMP, BaseClock, BigAdd(BaseClock, 1), LastExactMillis},
     options \in {DefaultOptions, OptionRecord(NoPrefix, 1, "objA1", TRUE)},
     bytes \in ByteStreams}

CompareBodies ==
  /\ probe = None
  /\ \E a \in OrderBodies, b \in OrderBodies, prefix \in {NoPrefix, PrefixU} :
       Compare(prefix \o a, prefix \o b, prefix)

SpecOrder == Init /\ [][CompareBodies]_vars

\* the 9 characters compareZeroIds looks at
TimestampField(id, prefix) == Slice(SliceFrom(id, Len(prefix)), 0, 9)

\* C12: for two identifiers whose 9 characters after the prefix are base62,
\* compareZeroIds returns -1, 0 or 1 as the base62 value of a's timestamp
\* field is below, equal to or above b's; it returns what it returns for
\* the two bare fields, so nothing behind the field counts; and
\* compare(a, b) = -compare(b, a).
C12_OrdersByTimestampField ==
  (/\ probe.kind = "compare"
   /\ IsBase62Str(TimestampField(probe.a, probe.prefix))
   /\ Len(TimestampField(probe.a, probe.prefix)) = 9
   /\ IsBase62Str(TimestampField(probe.b, probe.prefix))
   /\ Len(TimestampField(probe.b, probe.prefix)) = 9)
  => LET fieldA == TimestampField(probe.a, probe.prefix)
         fieldB == TimestampField(probe.b, probe.prefix)
     IN  /\ probe.result.kind = "value"
         /\ probe.result.value = BigCmp(decodeBase62(fieldA), decodeBase62(fieldB))
         /\ probe.result = compareZeroIds(fieldA, fieldB, NoPrefix)
         /\ compareZeroIds(probe.b, probe.a, probe.prefix).kind = "value"
         /\ compareZeroIds(probe.b, probe.a, probe.prefix).value = -probe.result.value

\* a's field is below b's although a is longer and everything behind a's
\* field is above what is behind b's
C12_Witness ==
  /\ probe.kind = "compare"
  /\ probe.prefix = PrefixU
  /\ Len(probe.a) > Len(probe.b)
  /\ Len(probe.b) > 11
  /\ StrCmp(SliceFrom(probe.a, 11), SliceFrom(probe.b, 11)) = 1
  /\ TimestampField(probe.a, probe.prefix)[1] = TimestampField(probe.b, probe.prefix)[1]
  /\ probe.result.kind = "value"
  /\ probe.result.value = -1

(***************************************************************************)
(* decodeZeroId on arbitrary strings.                                      *)
(***************************************************************************)
\* "", "invalid", "invalid-chars!", "!!!!!!!!!!", "7mjS6b2rg", "7mjS6b2rg!", "7mjS6b2rg5HTfry!", "000000000A", "zzzzzzzzzz"
DecodeLiterals ==
  { <<>>,
    <<105, 110, 118, 97, 108, 105, 100>>,
    <<105, 110, 118, 97, 108, 105, 100, 45, 99, 104, 97, 114, 115, 33>>,
    <<33, 33, 33, 33, 33, 33, 33, 33, 33, 33>>,
    <<55, 109, 106, 83, 54, 98, 50, 114, 103>>,
    <<55, 109, 106, 83, 54, 98, 50, 114, 103, 33>>,
    <<55, 109, 106, 83, 54, 98, 50, 114, 103, 53, 72, 84, 102, 114, 121, 33>>,
    <<48, 48, 48, 48, 48, 48, 48, 48, 48, 65>>,
    <<122, 122, 122, 122, 122, 122, 122, 122, 122, 122>> }

\* "7mjS6b2rg", the field of 1700000000000 with sequence 0
BaseField == <<55, 109, 106, 83, 54, 98, 50, 114, 103>>

\* what follows the timestamp field: "0", "000", "zzz12", "001AB", "0020A", "002zz", "0041z21", "0061z21"
\* (one character; a declared length of 0; a declared length above what is
\* left; an odd declared length; the bytes 10 and 3843 % 256 = 3, which are
\* not JSON; the text {}; and {} behind a declared length that is too large)
MetadataAreas ==
  { <<48>>,
    <<48, 48, 48>>,
    <<122, 122, 122, 49, 50>>,
    <<48, 48, 49, 65, 66>>,
    <<48, 48, 50, 48, 65>>,
    <<48, 48, 50, 122, 122>>,
    <<48, 48, 52, 49, 122, 50, 49>>,
    <<48, 48, 54, 49, 122, 50, 49>> }

\* a generated identifier whose last character is replaced by "!" or moved
\* to another character of the alphabet
Damaged(id) ==
  { [id EXCEPT ![Len(id)] = 33],
    [id EXCEPT ![Len(id)] = IF id[Len(id)] = 48 THEN 49 ELSE 48] }

\* the literals, identifiers generated at 946684799999 (the millisecond
\* before MIN_TIMESTAMP) and at three accepted timestamps, the same
\* damaged, and the bodies with the metadata areas, bare and with their
\* checksum and prefix
DecodeInputs ==
  LET generated == {zeroIdAt(ts, options, bytes) :
                      ts \in {<<946, 684, 799, 999>>, MIN_TIMESTAMP, BaseClock,
                              LastExactMillis},
                      options \in {DefaultOptions,
                                   OptionRecord(NoPrefix, DEFAULT_RANDOM_LENGTH, Undefined, TRUE),
                                   OptionRecord(PrefixU, 1, "objA1", TRUE)},
                      bytes \in ByteStreams}
      bodies == {BaseField \o area : area \in MetadataAreas}
  IN  DecodeLiterals \cup generated
        \cup UNION {Damaged(id) : id \in generated}
        \cup UNION {{prefix \o body, prefix \o body \o calculateChecksum(body)} :
                      prefix \in {NoPrefix, PrefixU}, body \in bodies}

DecodeOnce ==
  /\ probe = None
  /\ \E id \in DecodeInputs, prefix \in {NoPrefix, PrefixU}, checksum \in BOOLEAN :
       Decode(id, prefix, checksum)

SpecDecode == Init /\ [][DecodeOnce]_vars

\* what is left of id when prefix.length characters and, with the checksum
\* option, the last two characters are cut off
BodyOf(id, prefix, checksum) ==
  IF checksum THEN DropLast2(SliceFrom(id, Len(prefix))) ELSE SliceFrom(id, Len(prefix))

InAlphabet(body) == \A i \in 1..Len(body) : body[i] \in Base62Set

\* the first 9 characters decode to a value whose quotient by 1000 is
\* within [MIN_TIMESTAMP, MAX_TIMESTAMP]
TimestampInRange(body) ==
  LET decoded == decodeBase62(Slice(body, 0, 9))
  IN  /\ decoded # MinusOne
      /\ BigLe(MIN_TIMESTAMP, BigDiv1000(decoded))
      /\ BigLe(BigDiv1000(decoded), MAX_TIMESTAMP)

\* C13: decodeZeroId returns null or a record for every input, prefix and
\* checksum option; a record only if the body left after the prefix (and
\* the verified 2-character checksum) has at least 10 characters, all of
\* 0-9A-Za-z, and its first 9 characters decode to a value whose quotient
\* by 1000 is within [946684800000, 32503680000000]; a character outside
\* the alphabet, a body that is too short, a checksum mismatch and a
\* timestamp out of range each give null.
C13_DecodeTotalAndSentinel ==
  probe.kind = "decode" =>
    LET body == BodyOf(probe.id, probe.prefix, probe.checksum)
    IN  /\ probe.result = Null \/ probe.result.kind = "record"
        /\ probe.result # Null =>
             /\ probe.checksum => verifyChecksum(SliceFrom(probe.id, Len(probe.prefix)))
             /\ Len(body) >= 10
             /\ InAlphabet(body)
             /\ TimestampInRange(body)
        /\ ~InAlphabet(body) => probe.result = Null
        /\ Len(body) < 10 => probe.result = Null
        /\ (probe.checksum /\ ~verifyChecksum(SliceFrom(probe.id, Len(probe.prefix)))) =>
             probe.result = Null
        /\ ~TimestampInRange(body) => probe.result = Null

\* a body that is a record without the checksum option and null with it,
\* because its last two characters are not its checksum
C13_Witness ==
  /\ probe.kind = "decode"
  /\ probe.checksum
  /\ probe.prefix = PrefixU
  /\ ~verifyChecksum(SliceFrom(probe.id, Len(probe.prefix)))
  /\ decodeZeroId(probe.id, probe.prefix, FALSE) # Null
  /\ Len(BodyOf(probe.id, probe.prefix, TRUE)) >= 10
  /\ probe.result = Null

\* the number the first three characters of the metadata area declare
DeclaredLength(area) == BigToInt(decodeBase62(Slice(area, 0, 3)))

\* the bytes of the declared metadata part, one for each pair of characters
PairBytes(part) ==
  [i \in 1..(Len(part) \div 2) |->
     IndexOf(part[2 * i - 1]) * 62 + IndexOf(part[2 * i])]

\* the metadata area (the characters behind the timestamp field) of body
\* declares more characters than are left, or an odd number of them, or
\* holds bytes that are not JSON
BrokenMetadata(body) ==
  LET area == SliceFrom(body, 9)
  IN  /\ Len(area) >= 3
      /\ \/ DeclaredLength(area) > Len(area) - 3
         \/ DeclaredLength(area) % 2 = 1
         \/ JSONparse(TextDecode(PairBytes(Slice(area, 3, 3 + DeclaredLength(area)))))
              = SyntaxError

\* C20: for every body that passes the length, alphabet and timestamp
\* range checks decodeZeroId returns a record, also when the characters
\* behind the timestamp field declare a length larger than what is left,
\* declare an odd length, or hold bytes that are not JSON; the metadata of
\* the record is then undefined.
C20_MetadataLenient ==
  probe.kind = "decode" =>
    LET body == BodyOf(probe.id, probe.prefix, probe.checksum)
    IN  (/\ probe.prefix = NoPrefix \/ StartsWith(probe.id, probe.prefix)
         /\ probe.checksum => verifyChecksum(SliceFrom(probe.id, Len(probe.prefix)))
         /\ Len(body) >= 10
         /\ InAlphabet(body)
         /\ TimestampInRange(body))
        => /\ probe.result.kind = "record"
           /\ BrokenMetadata(body) => probe.result.metadata = Undefined

\* {} stored behind a declared length of 6 with only 4 characters left
C20_Witness ==
  /\ probe.kind = "decode"
  /\ probe.checksum
  /\ probe.prefix = PrefixU
  /\ probe.result.kind = "record"
  /\ BrokenMetadata(BodyOf(probe.id, probe.prefix, TRUE))
  /\ DeclaredLength(SliceFrom(BodyOf(probe.id, probe.prefix, TRUE), 9)) = 6
  /\ Len(BodyOf(probe.id, probe.prefix, TRUE)) = 16
  /\ probe.result.metadata = Undefined

(***************************************************************************)
(* The length of a generated identifier.                                   *)
(***************************************************************************)
\* 3 + 2*b for a metadata value whose JSON text has b UTF-8 bytes
MetadataGrowth(metadata) ==
  IF metadata = Undefined THEN 0
  ELSE 3 + 2 * Len(TextEncode(JSONstringify(metadata)))

\* C14 (as claimed): the identifier a zeroId call returns has
\* prefix.length + 9 + randomLength + (2 with checksum) characters without
\* metadata, and 3 + 2*b more with metadata whose JSON text has b bytes.
C14_GeneratedLength ==
  cur # None =>
    Len(cur.id) = Len(cur.options.prefix) + TIMESTAMP_LENGTH
                    + cur.options.randomLength
                    + (IF cur.options.checksum THEN 2 ELSE 0)
                    + MetadataGrowth(cur.options.metadata)

(***************************************************************************)
(* toBuffer and fromBuffer.  The numbers pushed are stored in a Uint8Array,*)
(* that is modulo 256; the bit operations are written with * \div and %   *)
(* (\div rounds down as >> does, % is never negative).                     *)
(***************************************************************************)
ToUint8(x) == x % 256

\* x | y for two values of 0..255
RECURSIVE BitOr8(_, _)
BitOr8(x, y) ==
  IF x = 0 THEN y
  ELSE IF y = 0 THEN x
  ELSE 2 * BitOr8(x \div 2, y \div 2) + (IF x % 2 = 1 \/ y % 2 = 1 THEN 1 ELSE 0)

\* the loop of toBuffer without the i++ behind the second byte
RECURSIVE MutToBufferLoopNoSkip(_, _, _)
MutToBufferLoopNoSkip(unprefixed, i, bytes) ==
  IF i >= Len(unprefixed) THEN bytes
  ELSE IF i + 1 < Len(unprefixed)
  THEN LET high == IndexOf(unprefixed[i + 1])
           low == IndexOf(unprefixed[i + 2])
           first == BitOr8(ToUint8(high * 16), ToUint8(low \div 4))
       IN  IF i + 2 < Len(unprefixed)
           THEN LET next == IndexOf(unprefixed[i + 3])
                    second == BitOr8(ToUint8((low % 4) * 64), ToUint8(next))
                IN  MutToBufferLoopNoSkip(unprefixed, i + 2, bytes \o <<first, second>>)
           ELSE MutToBufferLoopNoSkip(unprefixed, i + 2, Append(bytes, first))
  ELSE Append(bytes, ToUint8(IndexOf(unprefixed[i + 1]) * 4))

\* i is the 0-based index of the code
RECURSIVE toBufferLoop(_, _, _)
toBufferLoop(unprefixed, i, bytes) ==
  IF i >= Len(unprefixed) THEN bytes
  ELSE IF i + 1 < Len(unprefixed)
  THEN LET high == IndexOf(unprefixed[i + 1])
           low == IndexOf(unprefixed[i + 2])
           first == BitOr8(ToUint8(high * 16), ToUint8(low \div 4))
       IN  IF i + 2 < Len(unprefixed)
           THEN LET next == IndexOf(unprefixed[i + 3])
                    second == BitOr8(ToUint8((low % 4) * 64), ToUint8(next))
                IN  toBufferLoop(unprefixed, i + 3, bytes \o <<first, second>>)
           ELSE toBufferLoop(unprefixed, i + 2, Append(bytes, first))
  ELSE Append(bytes, ToUint8(IndexOf(unprefixed[i + 1]) * 4))

toBuffer(id, prefix) == toBufferLoop(SliceFrom(id, Len(prefix)), 0, << >>)

\* BASE62_CHARS[k] appended to a string: the character, or the text
\* "undefined" for k = 62 and k = 63
CharAt(k) == IF k < 62 THEN <<BASE62_CHARS[k + 1]>> ELSE UndefinedText

RECURSIVE fromBufferLoop(_, _, _)
fromBufferLoop(buffer, i, result) ==
  IF i >= Len(buffer) THEN result
  ELSE
    LET b1 == buffer[i + 1]
    IN  IF i + 1 < Len(buffer)
        THEN LET b2 == buffer[i + 2]
                 hasThird == i + 2 < Len(buffer)
                 third == IF hasThird THEN buffer[i + 3] \div 64 ELSE 0
                 three == CharAt(b1 \div 4)
                            \o CharAt((b1 % 4) * 16 + b2 \div 16)
                            \o CharAt((b2 % 16) * 4 + third)
             IN  IF hasThird
                 THEN fromBufferLoop(buffer, i + 3,
                        result \o three \o CharAt(buffer[i + 3] % 64))
                 ELSE fromBufferLoop(buffer, i + 2, result \o three)
        ELSE fromBufferLoop(buffer, i + 1,
               result \o CharAt(b1 \div 4) \o CharAt((b1 % 4) * 16))

fromBuffer(buffer, prefix) == prefix \o fromBufferLoop(buffer, 0, << >>)

\* toBuffer, and fromBuffer of its result, on a generated identifier:
\* bodies of 10, 11, 12 and 16 characters, two more with a checksum and 17
\* more with the metadata {"a":1}
ToBufferOnce ==
  /\ probe = None
  /\ \E ts \in {MIN_TIMESTAMP, BaseClock, LastExactMillis},
        p \in {NoPrefix, PrefixU}, n \in {1, 2, 3, DEFAULT_RANDOM_LENGTH},
        m \in {Undefined, "objA1"}, c \in BOOLEAN, bytes \in ByteStreams :
       LET id == zeroIdAt(ts, OptionRecord(p, n, m, c), bytes)
       IN  probe' = [kind |-> "buffer", id |-> id, prefix |-> p,
                     buffer |-> toBuffer(id, p),
                     restored |-> fromBuffer(toBuffer(id, p), p)]
  /\ UNCHANGED <<clock, lastTimestamp, counter, prev, cur>>

SpecBuffer == Init /\ [][ToBufferOnce]_vars

\* C15 (as claimed): for a 16-character base62 body s, with or without a
\* prefix p, fromBuffer(toBuffer(p + s, p), p) is p + s.
C15_BufferRoundTrip ==
  (/\ probe.kind = "buffer"
   /\ Len(probe.id) - Len(probe.prefix) = 16
   /\ IsBase62Str(SliceFrom(probe.id, Len(probe.prefix))))
  => probe.restored = probe.id

\* C16: for a generated identifier whose body behind the prefix has n >= 10
\* base62 characters, toBuffer gives fewer than n bytes: 2 for every three
\* characters and 1 more when n is not a multiple of 3.
C16_BufferCompacts ==
  (/\ probe.kind = "buffer"
   /\ Len(probe.id) - Len(probe.prefix) >= 10
   /\ IsBase62Str(SliceFrom(probe.id, Len(probe.prefix))))
  => LET n == Len(probe.id) - Len(probe.prefix)
     IN  /\ Len(probe.buffer) < n
         /\ Len(probe.buffer) = 2 * (n \div 3) + (IF n % 3 = 0 THEN 0 ELSE 1)
         /\ n = 16 => Len(probe.buffer) = 11

\* a 12-character body behind the prefix "u_": 8 bytes and no odd one
C16_Witness ==
  /\ probe.kind = "buffer"
  /\ probe.prefix = PrefixU
  /\ Len(probe.id) = 14
  /\ Len(probe.buffer) = 8
  /\ \A i \in 1..Len(probe.buffer) : probe.buffer[i] \in 0..255

(***************************************************************************)
(* extractTimestamp and getTimestampRange.                                 *)
(***************************************************************************)
\* a - b for a >= b, from the least significant limb upwards
RECURSIVE BigSubFrom(_, _, _, _)
BigSubFrom(a, b, borrow, out) ==
  IF a = << >> THEN out
  ELSE
    LET low == IF b = << >> THEN 0 ELSE b[Len(b)]
        rest == IF b = << >> THEN << >> ELSE SubSeq(b, 1, Len(b) - 1)
        diff == a[Len(a)] - low - borrow
    IN  BigSubFrom(SubSeq(a, 1, Len(a) - 1), rest,
                   IF diff < 0 THEN 1 ELSE 0,
                   <<(diff + SeqModulus) % SeqModulus>> \o out)

BigSub(a, b) == BigNorm(BigSubFrom(a, b, 0, << >>))

\* null, or the number of milliseconds
extractTimestamp(id, prefix) ==
  IF prefix # << >> /\ ~StartsWith(id, prefix) THEN Null
  ELSE
    LET unprefixed == SliceFrom(id, Len(prefix))
    IN  IF Len(unprefixed) < 9 \/ ~IsBase62Str(Slice(unprefixed, 0, 9)) THEN Null
        ELSE
          LET decoded == decodeBase62(Slice(unprefixed, 0, 9))
          IN  IF decoded = MinusOne THEN Null
              ELSE
                LET timestamp == BigDiv1000(decoded)
                IN  IF BigLt(timestamp, MIN_TIMESTAMP) \/ BigLt(MAX_TIMESTAMP, timestamp)
                    THEN Null
                    ELSE [kind |-> "number", value |-> timestamp]

\* Infinity and -Infinity: no limb is 1000 or -1000
Infinity == <<1000>>

NegInfinity == <<-1000>>

\* a < b for a number a and a number or Infinity or -Infinity b
NumLt(a, b) == b = Infinity \/ (b # NegInfinity /\ BigLt(a, b))

NumGt(a, b) == b = NegInfinity \/ (b # Infinity /\ BigLt(b, a))

\* the loop with the two tests chained by else
RECURSIVE MutRangeLoopElseIf(_, _, _, _)
MutRangeLoopElseIf(ids, prefix, oldest, newest) ==
  IF ids = << >> THEN [oldest |-> oldest, newest |-> newest]
  ELSE
    LET timestamp == extractTimestamp(ids[1], prefix)
    IN  IF timestamp = Null THEN MutRangeLoopElseIf(Tail(ids), prefix, oldest, newest)
        ELSE IF NumLt(timestamp.value, oldest)
        THEN MutRangeLoopElseIf(Tail(ids), prefix, timestamp.value, newest)
        ELSE MutRangeLoopElseIf(Tail(ids), prefix, oldest,
               IF NumGt(timestamp.value, newest) THEN timestamp.value ELSE newest)

RECURSIVE getTimestampRangeLoop(_, _, _, _)
getTimestampRangeLoop(ids, prefix, oldest, newest) ==
  IF ids = << >> THEN [oldest |-> oldest, newest |-> newest]
  ELSE
    LET timestamp == extractTimestamp(ids[1], prefix)
    IN  IF timestamp = Null THEN getTimestampRangeLoop(Tail(ids), prefix, oldest, newest)
        ELSE getTimestampRangeLoop(Tail(ids), prefix,
               IF NumLt(timestamp.value, oldest) THEN timestamp.value ELSE oldest,
               IF NumGt(timestamp.value, newest) THEN timestamp.value ELSE newest)

getTimestampRange(ids, prefix) ==
  IF Len(ids) = 0 THEN Null
  ELSE
    LET ends == getTimestampRangeLoop(ids, prefix, Infinity, NegInfinity)
    IN  IF ends.oldest = Infinity \/ ends.newest = NegInfinity THEN Null
        ELSE [kind |-> "range",
              oldest |-> ends.oldest,
              newest |-> ends.newest,
              oldestDate |-> ends.oldest,
              newestDate |-> ends.newest,
              span |-> BigSub(ends.newest, ends.oldest)]

\* 1700002000000
LaterClock == <<1, 700, 2, 0, 0>>

\* "invalid", "also_invalid", the bare field "7mjS6b2rg" with "!" behind it
\* (a timestamp for extractTimestamp), and identifiers of three timestamps,
\* the last one behind the prefix "u_"
RangeIds ==
  { <<105, 110, 118, 97, 108, 105, 100>>,
    <<97, 108, 115, 111, 95, 105, 110, 118, 97, 108, 105, 100>>,
    <<55, 109, 106, 83, 54, 98, 50, 114, 103, 33>>,
    zeroIdAt(BaseClock, DefaultOptions, <<5, 17, 29, 41, 53, 60, 3, 11, 23, 35, 47, 59>>),
    zeroIdAt(LaterClock, DefaultOptions, <<5, 17, 29, 41, 53, 60, 3, 11, 23, 35, 47, 59>>),
    zeroIdAt(MIN_TIMESTAMP, OptionRecord(NoPrefix, 1, Undefined, TRUE),
             <<5, 17, 29, 41, 53, 60, 3, 11, 23, 35, 47, 59>>),
    zeroIdAt(LastExactMillis, OptionRecord(PrefixU, 1, Undefined, FALSE),
             <<5, 17, 29, 41, 53, 60, 3, 11, 23, 35, 47, 59>>) }

\* the longest list of identifiers
MaxIds == 3

\* getTimestampRange on a list of up to MaxIds entries
RangeOnce ==
  /\ probe = None
  /\ \E n \in 0..MaxIds : \E ids \in [1..n -> RangeIds], prefix \in {NoPrefix, PrefixU} :
       probe' = [kind |-> "range", ids |-> ids, prefix |-> prefix,
                 result |-> getTimestampRange(ids, prefix)]
  /\ UNCHANGED <<clock, lastTimestamp, counter, prev, cur>>

SpecRange == Init /\ [][RangeOnce]_vars

\* the positions of ids whose entry has a timestamp
ValidPositions(ids, prefix) ==
  {i \in 1..Len(ids) : extractTimestamp(ids[i], prefix) # Null}

Reversed(ids) == [i \in 1..Len(ids) |-> ids[Len(ids) + 1 - i]]

\* C17: getTimestampRange is null for an empty list and for a list without
\* a valid entry; otherwise oldest is the least and newest the greatest
\* timestamp of the valid entries, span is newest - oldest and not
\* negative, and the list in reverse order gives the same result.
C17_RangeIsMinMax ==
  probe.kind = "range" =>
    LET valid == ValidPositions(probe.ids, probe.prefix)
        at(i) == extractTimestamp(probe.ids[i], probe.prefix).value
    IN  /\ valid = {} <=> probe.result = Null
        /\ valid # {} =>
             /\ \E i \in valid : probe.result.oldest = at(i)
             /\ \A i \in valid : BigLe(probe.result.oldest, at(i))
             /\ \E i \in valid : probe.result.newest = at(i)
             /\ \A i \in valid : BigLe(at(i), probe.result.newest)
             /\ BigLe(probe.result.oldest, probe.result.newest)
             /\ probe.result.span = BigSub(probe.result.newest, probe.result.oldest)
        /\ getTimestampRange(Reversed(probe.ids), probe.prefix) = probe.result

\* 1700002000000 before "invalid" before 1700000000000: span 2000000
C17_Witness ==
  /\ probe.kind = "range"
  /\ Len(probe.ids) = 3
  /\ ValidPositions(probe.ids, probe.prefix) = {1, 3}
  /\ probe.result # Null
  /\ probe.result.oldest = BaseClock
  /\ probe.result.newest = LaterClock
  /\ probe.result.span = <<2, 0, 0>>

(***************************************************************************)
(* encodeBase62 and decodeBase62 on their own.                             *)
(***************************************************************************)
\* 62^9 - 1 = 13537086546263551, the largest value of a 9-character field
MaxField == <<13, 537, 86, 546, 263, 551>>

\* values v with 0 <= v < 62^w: all of them for w <= 2, the ends and values
\* in between for the width of the metadata length (3), for 5 and for the
\* width of the timestamp field (9)
WidthValues(w) ==
  IF w = 0 THEN {<< >>}
  ELSE IF w = 1 THEN {BigFromInt(v) : v \in 0..61}
  ELSE IF w = 2 THEN {BigFromInt(v) : v \in 0..3843}
  ELSE IF w = 3 THEN {BigFromInt(v) : v \in {0, 61, 62, 3843, 3844, 238327}}
  ELSE IF w = 5 THEN {BigFromInt(v) : v \in {0, 14776336, 916132831}}
  ELSE {<< >>, <<1>>, <<61>>, <<62>>, BigMul1000Add(MIN_TIMESTAMP, 0),
        BigMul1000Add(BaseClock, 999), BigMul1000Add(LastExactMillis, 999),
        MaxField}

\* strings with a character outside the alphabet, at the start, in the
\* middle and at the end, among them the neighbours / : @ [ ` { of the
\* three ranges and the characters 233 and 65533
BadStrings ==
  { <<33>>,
    <<97, 33>>,
    <<33, 97>>,
    <<55, 109, 106, 83, 54, 98, 50, 114, 33>>,
    <<97, 98, 45, 99, 100>>,
    <<47, 48>>,
    <<58, 48>>,
    <<64, 65>>,
    <<91, 65>>,
    <<96, 97>>,
    <<123, 97>>,
    <<97, 32, 98>>,
    <<97, 233>>,
    <<65533, 48, 49>> }

EncodeDecode(v, w) ==
  /\ probe' = [kind |-> "codec", value |-> v, width |-> w,
               encoded |-> encodeBase62(v, w),
               decoded |-> decodeBase62(encodeBase62(v, w))]
  /\ UNCHANGED <<clock, lastTimestamp, counter, prev, cur>>

DecodeString(str) ==
  /\ probe' = [kind |-> "decodeBase62", str |-> str, result |-> decodeBase62(str)]
  /\ UNCHANGED <<clock, lastTimestamp, counter, prev, cur>>

\* one encodeBase62 / decodeBase62 round, or one decodeBase62 of a string
\* with a foreign character or of "", "0", "z", "7mjS6b2rg", "zzzzzzzzz"
NextCodec ==
  /\ probe = None
  /\ \/ \E w \in {0, 1, 2, 3, 5, TIMESTAMP_LENGTH} : \E v \in WidthValues(w) :
          EncodeDecode(v, w)
     \/ \E str \in BadStrings \cup
                   {<< >>, <<48>>, <<122>>, BaseField,
                    <<122, 122, 122, 122, 122, 122, 122, 122, 122>>} :
          DecodeString(str)

SpecCodec == Init /\ [][NextCodec]_vars

\* C18: for 0 <= v < 62^w, encodeBase62(v, w) has w characters and
\* decodeBase62 of it is v; decodeBase62 of a string with a character
\* outside the alphabet is -1.
C18_CodecRoundTrip ==
  /\ probe.kind = "codec" =>
       /\ Len(probe.encoded) = probe.width
       /\ InAlphabet(probe.encoded)
       /\ probe.decoded = probe.value
  /\ (probe.kind = "decodeBase62" /\ ~InAlphabet(probe.str)) =>
       probe.result = MinusOne

\* the largest 9-character value, zzzzzzzzz
C18_Witness ==
  /\ probe.kind = "codec"
  /\ probe.width = TIMESTAMP_LENGTH
  /\ probe.value = MaxField
  /\ probe.encoded = <<122, 122, 122, 122, 122, 122, 122, 122, 122>>
  /\ probe.decoded = MaxField

(***************************************************************************)
(* The clock sequence, read back from the identifiers.                     *)
(***************************************************************************)
\* the sequence embedded in the identifier of a call: the decoded
\* timestamp field modulo 1000
SequenceOf(call) ==
  LET embedded == EmbeddedTimestamp(call)
  IN  IF embedded = << >> THEN 0 ELSE embedded[Len(embedded)]

\* C19: after every zeroId call lastTimestamp is the millisecond the call
\* read; the sequence embedded in its identifier is 0 when that millisecond
\* differs from the lastTimestamp before the call, whether it is larger or
\* smaller, and otherwise the sequence of the previous identifier plus 1
\* modulo 1000; it is always within 0..999.  (cur is the last call since
\* the last reset and prev the call before it; lastTimestamp before the
\* call was prev.now, or 0 without a call before it.)
C19_ClockSequenceRule ==
  cur # None =>
    /\ lastTimestamp = cur.now
    /\ SequenceOf(cur) \in 0..999
    /\ prev = None => SequenceOf(cur) = 0
    /\ (prev # None /\ cur.now # prev.now) => SequenceOf(cur) = 0
    /\ (prev # None /\ cur.now = prev.now) =>
         SequenceOf(cur) = (SequenceOf(prev) + 1) % 1000

\* the call after the clock went back by a millisecond: sequence 0 although
\* the call before it, at the later millisecond, embedded a sequence above 0
C19_Witness ==
  /\ prev # None
  /\ cur # None
  /\ BigLt(cur.now, prev.now)
  /\ SequenceOf(prev) > 0
  /\ SequenceOf(cur) = 0
  /\ lastTimestamp = cur.now
  /\ counter = 0

(***************************************************************************)
(* zeroId, resetCounter and the functions that do not touch the module     *)
(* state, in any order.                                                    *)
(***************************************************************************)
\* zeroId calls within one millisecond in this specification
MaxFrameCalls == 2

ZeroIdFew ==
  /\ clock = lastTimestamp => counter < MaxFrameCalls
  /\ \E bytes \in SeqBytes : zeroId(DefaultOptions, bytes)

\* one call of zeroIdAt, decodeZeroId / isValidZeroId, compareZeroIds or
\* extractTimestamp; the identifiers of the last zeroId calls are the
\* arguments of the last three
HelperCall ==
  \/ \E ts \in ClockVals \cup ValidMillis,
        options \in {DefaultOptions, OptionRecord(PrefixU, 1, "objA1", TRUE)},
        bytes \in SeqBytes :
       ZeroIdAt(ts, options, bytes)
  \/ /\ cur # None
     /\ \E checksum \in BOOLEAN : Decode(cur.id, cur.options.prefix, checksum)
  \/ /\ prev # None
     /\ cur # None
     /\ Compare(prev.id, cur.id, NoPrefix)
  \/ /\ cur # None
     /\ probe' = [kind |-> "extractTimestamp", id |-> cur.id,
                  result |-> extractTimestamp(cur.id, NoPrefix)]
     /\ UNCHANGED <<clock, lastTimestamp, counter, prev, cur>>

NextFrame == Tick \/ ZeroIdFew \/ resetCounter \/ HelperCall

SpecFrame == Init /\ [][NextFrame]_vars

\* C21: zeroIdAt, decodeZeroId, isValidZeroId, compareZeroIds and
\* extractTimestamp leave lastTimestamp and counter as they are; the
\* timestamp field of zeroIdAt(ts) is the encoding of ts*1000 (sequence 0)
\* whatever the clock sequence holds, and decodes to ts*1000 for every ts
\* the field has room for; and whatever calls of these functions were
\* made, the last zeroId call embedded the sequence the clock sequence
\* alone gives it: 0 after a change of millisecond or a reset, the
\* previous sequence plus 1 otherwise.
C21_ZeroIdAtIndependent ==
  /\ [][probe' # probe => UNCHANGED <<lastTimestamp, counter>>]_vars
  /\ [](probe.kind = "zeroIdAt" =>
          /\ TimestampField(probe.id, probe.options.prefix)
               = encodeBase62(BigMul1000Add(probe.ts, 0), TIMESTAMP_LENGTH)
          /\ BigLe(probe.ts, BigAdd(LastExactMillis, 1)) =>
               decodeBase62(TimestampField(probe.id, probe.options.prefix))
                 = BigMul1000Add(probe.ts, 0))
  /\ [](cur # None =>
          /\ lastTimestamp = cur.now
          /\ SequenceOf(cur) = counter
          /\ (prev = None \/ cur.now # prev.now) => SequenceOf(cur) = 0
          /\ (prev # None /\ cur.now = prev.now) =>
               SequenceOf(cur) = SequenceOf(prev) + 1)

\* zeroIdAt for the millisecond of the clock sequence while its counter is
\* above 0: sequence 0 in the identifier, the counter as it was
C21_Witness ==
  /\ probe.kind = "zeroIdAt"
  /\ probe.ts = lastTimestamp
  /\ cur # None
  /\ counter > 0
  /\ SequenceOf(cur) = counter
  /\ decodeBase62(TimestampField(probe.id, probe.options.prefix))
       = BigMul1000Add(probe.ts, 0)

\* C22: resetCounter leaves lastTimestamp = 0 and counter = 0 (no zeroId
\* call since the start or the last reset: cur is none), and the first
\* zeroId call after it embeds sequence 0, however many identifiers the
\* millisecond had before the reset.
C22_ResetRestoresInitial ==
  /\ cur = None => (lastTimestamp = << >> /\ counter = 0)
  /\ (cur # None /\ prev = None) => (SequenceOf(cur) = 0 /\ counter = 0)

\* the first call after a reset (prev is none), in the millisecond in which
\* two identifiers compared before the reset carry the sequences
\* MaxFrameCalls - 1 and MaxFrameCalls
C22_Witness ==
  /\ probe.kind = "compare"
  /\ prev = None
  /\ cur # None
  /\ SequenceOf(cur) = 0
  /\ decodeBase62(TimestampField(probe.a, NoPrefix))
       = BigMul1000Add(cur.now, MaxFrameCalls - 1)
  /\ decodeBase62(TimestampField(probe.b, NoPrefix))
       = BigMul1000Add(cur.now, MaxFrameCalls)

\* C23 (as claimed): for every id and prefix extractTimestamp is null
\* exactly when decodeZeroId without the checksum option is null, and
\* otherwise both give the same timestamp.
C23_ExtractAgreesWithDecode ==
  (probe.kind = "decode" /\ ~probe.checksum) =>
    LET extracted == extractTimestamp(probe.id, probe.prefix)
    IN  /\ extracted = Null <=> probe.result = Null
        /\ probe.result # Null => extracted.value = probe.result.timestamp

(***************************************************************************)
(* randomBase62 as a loop, one step per line of control: the while test    *)
(* with the request of needed + 4 bytes, the for test, and the for body    *)
(* with the next byte of the array.  The bytes are 5 (below 62), 70 (taken *)
(* modulo 62), 250 or 255 (both rejected).  probe.left counts the bytes of *)
(* the array not yet read, probe.byte is the byte read last (-1: none) and *)
(* probe.before the result before it.                                      *)
(***************************************************************************)
\* the largest length asked for
MaxRandomLength == 2

RandomCall ==
  /\ probe = None
  /\ \E length \in 0..MaxRandomLength :
       probe' = [kind |-> "random", length |-> length, result |-> << >>,
                 before |-> << >>, byte |-> -1, left |-> 0, size |-> 0,
                 drew |-> FALSE, pc |-> "while"]
  /\ UNCHANGED <<clock, lastTimestamp, counter, prev, cur>>

\* the while test: a new array of needed + 4 bytes, or the return
RandomWhile ==
  /\ probe.kind = "random"
  /\ probe.pc = "while"
  /\ \/ /\ Len(probe.result) < probe.length
        /\ probe' = [probe EXCEPT !.left = probe.length - Len(probe.result) + 4,
                                  !.size = probe.length - Len(probe.result) + 4,
                                  !.drew = TRUE, !.pc = "for"]
     \/ /\ Len(probe.result) >= probe.length
        /\ probe' = [probe EXCEPT !.pc = "done"]
  /\ UNCHANGED <<clock, lastTimestamp, counter, prev, cur>>

\* the for body with the next byte of the array
RandomByte(byte) ==
  /\ probe.kind = "random"
  /\ probe.pc = "for"
  /\ probe.left > 0
  /\ Len(probe.result) < probe.length
  /\ probe' = [probe EXCEPT !.before = probe.result, !.byte = byte,
                            !.left = probe.left - 1,
                            !.result = randomBase62Byte(byte, probe.result)]
  /\ UNCHANGED <<clock, lastTimestamp, counter, prev, cur>>

\* the for test failing: back to the while test
RandomForEnd ==
  /\ probe.kind = "random"
  /\ probe.pc = "for"
  /\ (probe.left = 0 \/ Len(probe.result) >= probe.length)
  /\ probe' = [probe EXCEPT !.pc = "while"]
  /\ UNCHANGED <<clock, lastTimestamp, counter, prev, cur>>

NextRandom ==
  \/ RandomCall
  \/ RandomWhile
  \/ \E byte \in {5, 70, 250, 255} : RandomByte(byte)
  \/ RandomForEnd

\* the loop goes on while it can, and the random source gives a byte
\* below 248 again and again
SpecRandom ==
  /\ Init
  /\ [][NextRandom]_vars
  /\ WF_vars(NextRandom)
  /\ SF_vars(\E byte \in {5, 70} : RandomByte(byte))

\* C24: randomBase62(length) returns, given a random source that gives
\* bytes below 248 again and again; it returns exactly length characters
\* of the alphabet; a byte below 248 appends the character at its value
\* modulo 62 and a byte of 248 or more appends nothing; with length 0 it
\* returns "" without asking for bytes.
C24_RandomTerminates ==
  /\ [](probe.kind = "random" =>
          /\ Len(probe.result) <= probe.length
          /\ InAlphabet(probe.result)
          /\ probe.byte # -1 =>
               /\ probe.drew
               /\ probe.byte < 248 =>
                    probe.result =
                      Append(probe.before, BASE62_CHARS[(probe.byte % 62) + 1])
               /\ probe.byte >= 248 => probe.result = probe.before
          /\ probe.pc = "done" => Len(probe.result) = probe.length
          /\ probe.length = 0 => (probe.result = << >> /\ ~probe.drew))
  /\ (probe.kind = "random") ~> (probe.kind = "random" /\ probe.pc = "done")

\* returned after a second array, the last byte read being 70
C24_Witness ==
  /\ probe.kind = "random"
  /\ probe.pc = "done"
  /\ probe.length = 2
  /\ probe.size = 5
  /\ probe.byte = 70
  /\ probe.result = <<BASE62_CHARS[6], BASE62_CHARS[9]>>

====
